---- MODULE Spec2Model ----
(***************************************************************************)
(* Model of the attributed logger of the Fastify service template:        *)
(*   src/unnamed/part_001      the environment configuration (env)        *)
(*   src/src/util/logger.ts    getCallerFile, the winston logger, its     *)
(*                             printf format, the silencing of the        *)
(*                             transports and the record written at       *)
(*                             module initialisation                      *)
(*   src/src/routes/root.ts    the handlers of GET / and GET /health      *)
(*                                                                         *)
(* Strings that the code only compares or copies are TLA+ strings.  File  *)
(* names, which the code searches for substrings and makes relative to    *)
(* the working directory, are sequences of tokens ("/" is a token of its  *)
(* own), so that String.includes and path.relative are computed.          *)
(* An optional value (undefined / null in the source) is <<>>, a present  *)
(* value v is <<v>>.                                                       *)
(***************************************************************************)
EXTENDS Integers, Sequences, FiniteSets, TLC

VARIABLES
    LOG_LEVEL,          \* process.env.LOG_LEVEL   (optional string)
    ENABLE_DEBUG,       \* process.env.ENABLE_DEBUG (optional string)
    pc,                 \* "boot" before util/logger is imported, "ready" after
    env,                \* the env object of the configuration module
    shouldLogFileName,  \* logger.ts:40
    logger,             \* the winston logger: its level and its transports
    stdout,             \* the lines the Console transport has written
    clock,              \* wall clock, in seconds
    nops,               \* calls and requests made so far (bounded by MaxOps)
    last,               \* the operation that ran last: what it was given
    trace,              \* getCallerFile study: the captured stack
    origin,             \* getCallerFile study: who captured it
    caller,             \* getCallerFile study: optional result
    tasks               \* the requests accepted by the server, in order

vars == <<LOG_LEVEL, ENABLE_DEBUG, pc, env, shouldLogFileName, logger, stdout,
          clock, nops, last, trace, origin, caller, tasks>>

(***************************************************************************)
(* Bounds of the model.                                                    *)
(***************************************************************************)
MaxOps == 2
MaxTrace == 2
MaxTasks == 2

(***************************************************************************)
(* Severities.                                                             *)
(***************************************************************************)
LogLevel == <<"error", "warn", "info", "http", "verbose", "debug", "silly">>

LogLevels == {LogLevel[i] : i \in 1..Len(LogLevel)}

\* winston's npm levels, which createLogger uses by default: the priority
\* of a level is its position in the LogLevel type, counted from 0.
levels == [l \in LogLevels |-> (CHOOSE i \in 1..Len(LogLevel) : LogLevel[i] = l) - 1]

fileNameLogLevels == <<"error", "warn", "info", "http", "verbose", "debug", "silly">>

\* Array.prototype.includes
Includes(arr, x) == \E i \in 1..Len(arr) : arr[i] = x

\* String.prototype.toUpperCase on the level names
toUpperCase(level) ==
    CASE level = "error"   -> "ERROR"
      [] level = "warn"    -> "WARN"
      [] level = "info"    -> "INFO"
      [] level = "http"    -> "HTTP"
      [] level = "verbose" -> "VERBOSE"
      [] level = "debug"   -> "DEBUG"
      [] level = "silly"   -> "SILLY"
      [] OTHER             -> level

\* the ANSI colour the printf format wraps the level in
levelColor(level) ==
    CASE level = "error"   -> "31"
      [] level = "warn"    -> "33"
      [] level = "info"    -> "32"
      [] level = "http"    -> "36"
      [] level = "debug"   -> "34"
      [] level = "verbose" -> "90"
      [] level = "silly"   -> "90"
      [] OTHER             -> "none"

(***************************************************************************)
(* Optional strings, and the truthiness JavaScript gives them.             *)
(***************************************************************************)
Undefined == <<>>

Some(v) == <<v>>

\* truthiness of an optional string: undefined, null and "" are falsy
Truthy(opt) == opt # <<>> /\ opt[1] # ""

\* truthiness of an optional file name (a token sequence): null and the
\* empty string are falsy
TruthyName(opt) == opt # <<>> /\ opt[1] # <<>>

(***************************************************************************)
(* File names and node:path.                                               *)
(***************************************************************************)
\* process.cwd()
Cwd == <<"/", "app">>

\* String.prototype.includes on a file name: needle occurs contiguously
StrIncludes(s, needle) ==
    \E i \in 0..(Len(s) - Len(needle)) : SubSeq(s, i + 1, i + Len(needle)) = needle

\* the segments of a path: the runs of tokens between "/" tokens
RECURSIVE Segments(_)
Segments(p) ==
    IF p = <<>> THEN <<>>
    ELSE IF Head(p) = "/" THEN Segments(Tail(p))
    ELSE LET n == IF \E j \in 1..Len(p) : p[j] = "/"
                  THEN (CHOOSE j \in 1..Len(p) :
                            p[j] = "/" /\ \A k \in 1..(j - 1) : p[k] # "/") - 1
                  ELSE Len(p)
         IN  <<SubSeq(p, 1, n)>> \o Segments(SubSeq(p, n + 1, Len(p)))

IsAbsolute(p) == p # <<>> /\ Head(p) = "/"

\* path.resolve(p): an absolute path stands, any other is taken from Cwd
Resolve(p) == IF IsAbsolute(p) THEN Segments(p) ELSE Segments(Cwd) \o Segments(p)

RECURSIVE CommonPrefix(_, _)
CommonPrefix(a, b) ==
    IF a # <<>> /\ b # <<>> /\ Head(a) = Head(b)
    THEN 1 + CommonPrefix(Tail(a), Tail(b))
    ELSE 0

RECURSIVE Join(_)
Join(segs) ==
    IF segs = <<>> THEN <<>>
    ELSE IF Len(segs) = 1 THEN Head(segs)
    ELSE Head(segs) \o <<"/">> \o Join(Tail(segs))

\* path.relative(from, to): climb out of what is left of from, then descend
\* into what is left of to; "" when they are the same place
PathRelative(from, to) ==
    LET f == Resolve(from)
        t == Resolve(to)
        k == CommonPrefix(f, t)
    IN  Join([i \in 1..(Len(f) - k) |-> <<"..">>] \o SubSeq(t, k + 1, Len(t)))

(***************************************************************************)
(* Stack frames.  owner says whose code the frame's file really is; the   *)
(* code never sees it, it only sees fileName.                              *)
(***************************************************************************)
LoggerFile  == <<"/", "app", "/", "dist", "/", "util", "/", "logger", ".js">>
LibraryFile == <<"/", "app", "/", "node_modules", "/", "winston", "/", "index", ".js">>
RootFile    == <<"/", "app", "/", "dist", "/", "routes", "/", "root", ".js">>
HelperFile  == <<"/", "app", "/", "dist", "/", "util", "/", "logger", "Context", ".js">>
OutsideFile == <<"/", "srv", "/", "jobs", "/", "task", ".js">>
VendoredFile == <<"/", "app", "/", "dist", "/", "node_modules", "_cache", "/", "job", ".js">>
RuntimeFile == <<"node:internal", "/", "modules", "/", "esm", "/", "module_job">>

NoFrame      == [present |-> FALSE, fileName |-> Undefined,         owner |-> "none"]
NativeFrame  == [present |-> TRUE,  fileName |-> Undefined,         owner |-> "runtime"]
LoggerFrame  == [present |-> TRUE,  fileName |-> Some(LoggerFile),  owner |-> "logger"]
LibraryFrame == [present |-> TRUE,  fileName |-> Some(LibraryFile), owner |-> "library"]
RootFrame    == [present |-> TRUE,  fileName |-> Some(RootFile),    owner |-> "app"]
HelperFrame  == [present |-> TRUE,  fileName |-> Some(HelperFile),  owner |-> "app"]
OutsideFrame == [present |-> TRUE,  fileName |-> Some(OutsideFile), owner |-> "app"]
RuntimeFrame == [present |-> TRUE,  fileName |-> Some(RuntimeFile), owner |-> "runtime"]
VendoredFrame == [present |-> TRUE, fileName |-> Some(VendoredFile), owner |-> "app"]

Frames == {NoFrame, NativeFrame, LoggerFrame, LibraryFrame, RootFrame,
           HelperFrame, OutsideFrame, RuntimeFrame, VendoredFrame}

\* the frames outside the logger call, innermost first, up to MaxTrace of them
OuterTraces == UNION {[1..n -> Frames] : n \in 0..MaxTrace}

\* stackTrace.get() inside the printf format of a logging call: getCallerFile
\* and the format function (logger.ts), logform and winston, then the caller
CallStack(outer) == <<LoggerFrame, LibraryFrame>> \o outer

\* the same for the record written at logger.ts:98: the caller is the body
\* of the logger module itself, and outer is whatever imported the module
InitStack(outer) == <<LoggerFrame, LibraryFrame, LoggerFrame>> \o outer

UnknownFilePath == <<"unknown file path">>

QualifiesIgnoringLibraries(frame) ==
    /\ frame.present
    /\ TruthyName(frame.fileName)
    /\ ~StrIncludes(frame.fileName[1], <<"util", "/", "logger">>)

\* the test of logger.ts:26-30 on one frame
Qualifies(frame) ==
    /\ frame.present
    /\ TruthyName(frame.fileName)
    /\ ~StrIncludes(frame.fileName[1], <<"node_modules">>)
    /\ ~StrIncludes(frame.fileName[1], <<"util", "/", "logger">>)

RECURSIVE getCallerFileFrom(_, _)
getCallerFileFrom(tr, i) ==
    IF i > Len(tr) THEN UnknownFilePath
    ELSE IF Qualifies(tr[i]) THEN PathRelative(Cwd, tr[i].fileName[1])
    ELSE getCallerFileFrom(tr, i + 1)

\* the walk made from the outermost frame inwards
getCallerFileOutermost(tr) ==
    IF \E i \in 1..Len(tr) : Qualifies(tr[i])
    THEN PathRelative(Cwd, tr[CHOOSE i \in 1..Len(tr) :
                                  Qualifies(tr[i])
                                  /\ \A j \in (i + 1)..Len(tr) : ~Qualifies(tr[j])].fileName[1])
    ELSE UnknownFilePath

getCallerFile(tr) == getCallerFileFrom(tr, 1)

\* frame.getFileName() is a TypeError when frame is undefined
GetFileNameThrows(frame) == ~frame.present

\* fileName.includes(...) is a TypeError when fileName is null
IncludesThrows(fileName) == fileName = Undefined

FrameThrowsUnguarded(frame) ==
    GetFileNameThrows(frame) \/ IncludesThrows(frame.fileName)

\* one turn of the loop of getCallerFile raises: `if (!frame) continue`
\* comes before frame.getFileName(), and `fileName &&` before the includes
FrameThrows(frame) ==
    IF ~frame.present THEN FALSE
    ELSE IF GetFileNameThrows(frame) THEN TRUE
    ELSE IF ~TruthyName(frame.fileName) THEN FALSE
    ELSE IncludesThrows(frame.fileName)

\* getCallerFile raises: the loop reaches a frame on which it raises
getCallerFileThrows(tr) ==
    \E i \in 1..Len(tr) :
        /\ FrameThrows(tr[i])
        /\ \A j \in 1..(i - 1) : ~FrameThrows(tr[j]) /\ ~Qualifies(tr[j])

(***************************************************************************)
(* The configuration module (src/unnamed/part_001).                        *)
(***************************************************************************)
\* a missing LOG_LEVEL stays undefined, which is falsy like ""
ResolveLogLevelNoDefault(v) == IF v = Undefined THEN "" ELSE v[1]

\* process.env.LOG_LEVEL || "silly": the cast checks nothing
ResolveLogLevel(v) == IF Truthy(v) THEN v[1] ELSE "silly"

ResolveEnableDebugOnlyTrue(v) == v = Some("true")

\* process.env.ENABLE_DEBUG !== "false"
ResolveEnableDebug(v) == v # Some("false")

EnvConfig(ll, ed) ==
    [debugging |-> [logLevel    |-> ResolveLogLevel(ll),
                    enableDebug |-> ResolveEnableDebug(ed)]]

(***************************************************************************)
(* The logger (src/src/util/logger.ts).                                    *)
(***************************************************************************)
\* createLogger({ level: env.debugging.logLevel || "info", transports:
\* [new transports.Console()] })
createLogger(logLevel) ==
    [level      |-> IF logLevel # "" THEN logLevel ELSE "info",
     usedDefault |-> logLevel = "",
     transports |-> <<[name |-> "Console", silent |-> FALSE]>>]

SilenceNothing(lg, enableDebug) == lg

\* if (!env.debugging.enableDebug) every transport gets silent = true
SilenceTransports(lg, enableDebug) ==
    IF ~enableDebug
    THEN [lg EXCEPT !.transports =
              [i \in DOMAIN lg.transports |-> [lg.transports[i] EXCEPT !.silent = TRUE]]]
    ELSE lg

ShouldLogFileNameOnlyErrors(logLevel) == Includes(<<"error", "warn">>, logLevel)

\* fileNameLogLevels.includes(env.debugging.logLevel)
ShouldLogFileName(logLevel) == Includes(fileNameLogLevels, logLevel)

\* the printf format: the parts of the line, in the order they are printed
\*   `${timestamp} [${coloredLevel}]${coloredFileName}: ${message}`
\* location is the optional bracket: absent when fileName is null or ""
printf(info, t, tr, slf) ==
    LET fileName == IF slf THEN Some(getCallerFile(tr)) ELSE Undefined
    IN  [timestamp |-> t,
         level     |-> toUpperCase(info.level),
         color     |-> levelColor(info.level),
         location  |-> IF TruthyName(fileName) THEN fileName ELSE Undefined,
         message   |-> info.message]

LevelEnabledStrict(level, infoLevel) ==
    level = "" \/ (level \in DOMAIN levels /\ levels[level] > levels[infoLevel])

\* the test a winston transport makes on a record: !level ||
\* levels[level] >= levels[info.level]; a level that is not a key of levels
\* has no priority and the comparison is false
LevelEnabled(level, infoLevel) ==
    level = "" \/ (level \in DOMAIN levels /\ levels[level] >= levels[infoLevel])

\* a transport takes its level from the logger; a silent one drops the record
TransportAccepts(transport, level, info) ==
    ~transport.silent /\ LevelEnabled(level, info.level)

\* a Console transport that leaves the line open
ConsoleLogUnterminated(line) ==
    [timestamp |-> line.timestamp, level |-> line.level, color |-> line.color,
     location |-> line.location, message |-> line.message, eol |-> FALSE]

\* the Console transport: one write of the formatted record followed by
\* the end of line
ConsoleLog(line) ==
    [timestamp |-> line.timestamp, level |-> line.level, color |-> line.color,
     location |-> line.location, message |-> line.message, eol |-> TRUE]

\* a transport that drops a record equal to the one it wrote last
RECURSIVE DeliverDedup(_, _, _, _, _)
DeliverDedup(ts, level, info, line, out) ==
    IF ts = <<>> THEN out
    ELSE DeliverDedup(Tail(ts), level, info, line,
                      IF /\ TransportAccepts(Head(ts), level, info)
                         /\ ~(/\ out # <<>>
                              /\ out[Len(out)].level = line.level
                              /\ out[Len(out)].message = line.message)
                      THEN Append(out, ConsoleLog(line)) ELSE out)

RECURSIVE Deliver(_, _, _, _, _)
Deliver(ts, level, info, line, out) ==
    IF ts = <<>> THEN out
    ELSE Deliver(Tail(ts), level, info, line,
                 IF TransportAccepts(Head(ts), level, info)
                 THEN Append(out, ConsoleLog(line)) ELSE out)

\* logger.<level>(message): the record goes through the format, then to
\* every transport of the logger
LoggerWrite(lg, slf, info, t, tr, out) ==
    Deliver(lg.transports, lg.level, info, printf(info, t, tr, slf), out)

\* the printf format raises when getCallerFile does; winston re-throws what
\* a format raises, out of logger.<level>()
LoggerWriteThrows(slf, tr) == slf /\ getCallerFileThrows(tr)

InitRecord == [level |-> "info", message |-> "Logger initialized successfully"]

ModuleInitLogsFirst(ll, ed, outer, t) ==
    LET e   == EnvConfig(ll, ed)
        slf == ShouldLogFileName(e.debugging.logLevel)
        lg0 == createLogger(e.debugging.logLevel)
        lg1 == SilenceTransports(lg0, e.debugging.enableDebug)
    IN  [env |-> e, shouldLogFileName |-> slf, logger |-> lg1,
         stdout |-> LoggerWrite(lg0, slf, InitRecord, t, InitStack(outer), <<>>)]

\* the body of the logger module, top to bottom (logger.ts:40-98)
ModuleInit(ll, ed, outer, t) ==
    LET e   == EnvConfig(ll, ed)
        slf == ShouldLogFileName(e.debugging.logLevel)
        lg0 == createLogger(e.debugging.logLevel)
        lg1 == SilenceTransports(lg0, e.debugging.enableDebug)
    IN  [env |-> e, shouldLogFileName |-> slf, logger |-> lg1,
         stdout |-> LoggerWrite(lg1, slf, InitRecord, t, InitStack(outer), <<>>)]

(***************************************************************************)
(* The routes (src/src/routes/root.ts).                                    *)
(***************************************************************************)
RootCalls == <<[level |-> "info", message |-> "Hello world from root route"]>>

HealthCallsSwapped ==
    <<[level |-> "warn",    message |-> "Warn level test"],
      [level |-> "error",   message |-> "Error level test"],
      [level |-> "info",    message |-> "Info level test"],
      [level |-> "http",    message |-> "HTTP level test"],
      [level |-> "verbose", message |-> "Verbose level test"],
      [level |-> "debug",   message |-> "Debug level test"],
      [level |-> "silly",   message |-> "Silly level test"]>>

HealthCalls ==
    <<[level |-> "error",   message |-> "Error level test"],
      [level |-> "warn",    message |-> "Warn level test"],
      [level |-> "info",    message |-> "Info level test"],
      [level |-> "http",    message |-> "HTTP level test"],
      [level |-> "verbose", message |-> "Verbose level test"],
      [level |-> "debug",   message |-> "Debug level test"],
      [level |-> "silly",   message |-> "Silly level test"]>>

\* a handler's stack: the route file, then fastify and the runtime
HandlerStack == <<RootFrame, LibraryFrame, RuntimeFrame>>

\* the calls of one handler, in program order; the k first ones read the
\* clock at t, the others one second later
RECURSIVE WriteAll(_, _, _, _, _, _, _, _)
WriteAll(calls, i, k, t, outer, lg, slf, out) ==
    IF i > Len(calls) THEN out
    ELSE WriteAll(calls, i + 1, k, t, outer, lg, slf,
                  LoggerWrite(lg, slf, calls[i], IF i <= k THEN t ELSE t + 1,
                              CallStack(outer), out))

\* how many of the calls of a handler return before one of them raises
RECURSIVE Completed(_, _, _, _)
Completed(calls, i, outer, slf) ==
    IF i > Len(calls) THEN Len(calls)
    ELSE IF LoggerWriteThrows(slf, CallStack(outer)) THEN i - 1
    ELSE Completed(calls, i + 1, outer, slf)

\* the calls after which a handler gives the event loop back: neither
\* handler has an await
RootAwaits == {}

HealthAwaitsAfterThird == {3}

HealthAwaits == {}

Calls(route) == IF route = "root" THEN RootCalls ELSE HealthCalls

Awaits(route) == IF route = "root" THEN RootAwaits ELSE HealthAwaits

\* the last call a handler makes when it resumes before its call number from
Stop(route, from) ==
    LET ahead == {a \in Awaits(route) : a >= from}
    IN  IF ahead = {} THEN Len(Calls(route))
        ELSE CHOOSE a \in ahead : \A b \in ahead : a <= b

\* what the handler returns
Reply(route, t) ==
    IF route = "root" THEN Some([root |-> TRUE])
    ELSE Some([status |-> "ok", timestamp |-> t])

\* what fastify replies when the handler's promise rejects
ErrorResponse == Some([statusCode |-> 500])

(***************************************************************************)
(* The state machine.                                                      *)
(***************************************************************************)
LogLevelValues ==
    {Undefined, Some(""), Some("bogus")} \cup {Some(l) : l \in LogLevels}

EnableDebugValues == {Undefined, Some("true"), Some("false")}

\* the stack the module is imported under: the ESM loader of the runtime, or
\* a runner that is library code all the way out
ImportSites == {<<RuntimeFrame>>, <<LibraryFrame>>}

NoOp == [op |-> "none", calls |-> <<>>, outer |-> <<>>, start |-> 0,
         raised |-> FALSE, response |-> Undefined]

InitWith(logLevelValues, enableDebugValues) ==
    /\ LOG_LEVEL \in logLevelValues
    /\ ENABLE_DEBUG \in enableDebugValues
    /\ pc = "boot"
    /\ env = Undefined
    /\ shouldLogFileName = FALSE
    /\ logger = Undefined
    /\ stdout = <<>>
    /\ clock = 0
    /\ nops = 0
    /\ last = NoOp
    /\ trace = <<>>
    /\ origin = "none"
    /\ caller = Undefined
    /\ tasks = <<>>

Init == InitWith(LogLevelValues, EnableDebugValues)

\* the first import of util/logger evaluates the configuration module and
\* then the logger module
ImportLogger(outer) ==
    /\ pc = "boot"
    /\ LET m == ModuleInit(LOG_LEVEL, ENABLE_DEBUG, outer, clock)
           raised == LoggerWriteThrows(m.shouldLogFileName, InitStack(outer))
       IN  /\ env' = m.env
           /\ shouldLogFileName' = m.shouldLogFileName
           /\ logger' = m.logger
           /\ stdout' = IF raised THEN <<>> ELSE m.stdout
           /\ pc' = IF raised THEN "failed" ELSE "ready"
           /\ last' = [op |-> "init", calls |-> <<InitRecord>>, outer |-> outer,
                       start |-> 0, raised |-> raised, response |-> Undefined]
    /\ UNCHANGED <<LOG_LEVEL, ENABLE_DEBUG, clock, nops, trace, origin, caller, tasks>>

\* a turn that also lowers the threshold of the logger
TurnSetsLevel(op, calls, outer, k, response) ==
    /\ pc = "ready"
    /\ nops < MaxOps
    /\ stdout' = WriteAll(calls, 1, k, clock, outer, logger, shouldLogFileName, stdout)
    /\ last' = [op |-> op, calls |-> calls, outer |-> outer, start |-> Len(stdout),
                raised |-> FALSE, response |-> response]
    /\ clock' = IF k < Len(calls) THEN clock + 1 ELSE clock
    /\ nops' = nops + 1
    /\ logger' = [logger EXCEPT !.level = "error"]
    /\ UNCHANGED <<LOG_LEVEL, ENABLE_DEBUG, pc, env, shouldLogFileName,
                   trace, origin, caller, tasks>>

\* one turn of the event loop that makes the calls of `calls` from a stack
\* whose outer frames are `outer`; the second of the wall clock changes
\* after the k first calls (k = Len(calls): not at all)
Turn(op, calls, outer, k, response) ==
    /\ pc = "ready"
    /\ nops < MaxOps
    /\ LET done == Completed(calls, 1, outer, shouldLogFileName)
       IN  /\ stdout' = WriteAll(SubSeq(calls, 1, done), 1, k, clock, outer, logger,
                                 shouldLogFileName, stdout)
           /\ last' = [op |-> op, calls |-> calls, outer |-> outer,
                       start |-> Len(stdout), raised |-> done < Len(calls),
                       response |-> IF done < Len(calls) /\ response # Undefined
                                    THEN ErrorResponse ELSE response]
    /\ clock' = IF k < Len(calls) THEN clock + 1 ELSE clock
    /\ nops' = nops + 1
    /\ UNCHANGED <<LOG_LEVEL, ENABLE_DEBUG, pc, env, shouldLogFileName, logger,
                   trace, origin, caller, tasks>>

\* logger.error(msg), logger.warn(msg), ... called from application code
Log(level, msg, k) ==
    /\ pc = "ready"
    /\ Turn("log", <<[level |-> level, message |-> msg]>>, HandlerStack, k, Undefined)

\* GET /
GetRoot(k) ==
    /\ pc = "ready"
    /\ Turn("root", RootCalls, HandlerStack, k, Some([root |-> TRUE]))

GetHealthReportsLogger(k) ==
    /\ pc = "ready"
    /\ Turn("health", HealthCalls, HandlerStack, k,
            Some([status    |-> IF \E i \in DOMAIN logger.transports :
                                       logger.transports[i].silent
                                THEN "degraded" ELSE "ok",
                  timestamp |-> IF k < Len(HealthCalls) THEN clock + 1 ELSE clock]))

\* GET /health
GetHealth(k) ==
    /\ pc = "ready"
    /\ Turn("health", HealthCalls, HandlerStack, k,
            Some([status    |-> "ok",
                  timestamp |-> IF k < Len(HealthCalls) THEN clock + 1 ELSE clock]))

Next ==
    \/ \E outer \in ImportSites : ImportLogger(outer)
    \/ \E level \in LogLevels, k \in 0..1 : Log(level, "x", k)
    \/ \E k \in 0..Len(RootCalls) : GetRoot(k)
    \/ \E k \in 0..Len(HealthCalls) : GetHealth(k)

Spec == Init /\ [][Next]_vars

(***************************************************************************)
(* The initialisation of the module under every environment: any value of *)
(* the two variables, any stack the import is made under.                  *)
(***************************************************************************)
AllLogLevelValues == LogLevelValues \cup {Some("INFO")}

AllEnableDebugValues ==
    {Undefined, Some(""), Some("true"), Some("false"), Some("FALSE"), Some("0")}

InitEnv == InitWith(AllLogLevelValues, AllEnableDebugValues)

NextEnv == \E outer \in OuterTraces : ImportLogger(outer)

SpecEnv == InitEnv /\ [][NextEnv]_vars

(***************************************************************************)
(* Calls made without any setup, from stacks of every shape: the stack of *)
(* a handler, one with a native frame (no file name) and one with a hole. *)
(***************************************************************************)
SafeSites == {HandlerStack, <<NativeFrame, RootFrame>>, <<NoFrame, LibraryFrame>>}

InitSafe == InitWith(LogLevelValues, {Undefined, Some("false")})

\* logger.<level>(msg) from any of these stacks
LogFrom(level, msg, outer) ==
    /\ pc = "ready"
    /\ Turn("log", <<[level |-> level, message |-> msg]>>, outer, 1, Undefined)

NextSafe ==
    \/ \E outer \in {<<RuntimeFrame>>, <<NoFrame, NativeFrame>>} : ImportLogger(outer)
    \/ \E level \in LogLevels, outer \in SafeSites : LogFrom(level, "x", outer)

SpecSafe == InitSafe /\ [][NextSafe]_vars

(***************************************************************************)
(* Several requests in flight: the server accepts a request, and the event *)
(* loop later runs its handler, one handler at a time, from where it is to *)
(* its next await or to its end.                                           *)
(***************************************************************************)
InitConc == InitWith({Undefined, Some("http"), Some("error")}, {Undefined, Some("false")})

\* a request arrives and waits for its handler to be run
Accept(route) ==
    /\ pc = "ready"
    /\ Len(tasks) < MaxTasks
    /\ tasks' = Append(tasks, [route |-> route, next |-> 1, wrote |-> <<>>,
                               response |-> Undefined, done |-> FALSE])
    /\ UNCHANGED <<LOG_LEVEL, ENABLE_DEBUG, pc, env, shouldLogFileName, logger,
                   stdout, clock, nops, last, trace, origin, caller>>

\* the event loop runs the handler of request i; tick: the clock second
\* has changed since the last turn
Run(i, tick) ==
    /\ pc = "ready"
    /\ i \in 1..Len(tasks)
    /\ ~tasks[i].done
    /\ LET tk       == tasks[i]
           stop     == Stop(tk.route, tk.next)
           seg      == SubSeq(Calls(tk.route), tk.next, stop)
           t        == IF tick THEN clock + 1 ELSE clock
           made     == Completed(seg, 1, HandlerStack, shouldLogFileName)
           raised   == made < Len(seg)
           finished == raised \/ ~(stop \in Awaits(tk.route) /\ stop >= tk.next)
           out      == WriteAll(SubSeq(seg, 1, made), 1, made, t, HandlerStack,
                                logger, shouldLogFileName, stdout)
           response == IF ~finished THEN Undefined
                       ELSE IF raised THEN ErrorResponse ELSE Reply(tk.route, t)
       IN  /\ stdout' = out
           /\ clock' = t
           /\ tasks' = [tasks EXCEPT ![i] =
                            [route    |-> tk.route,
                             next     |-> tk.next + made,
                             wrote    |-> tk.wrote \o [n \in 1..(Len(out) - Len(stdout))
                                                          |-> Len(stdout) + n],
                             response |-> response,
                             done     |-> finished]]
           /\ last' = [op |-> tk.route, calls |-> seg, outer |-> HandlerStack,
                       start |-> Len(stdout), raised |-> raised, response |-> response]
    /\ UNCHANGED <<LOG_LEVEL, ENABLE_DEBUG, pc, env, shouldLogFileName, logger,
                   nops, trace, origin, caller>>

NextConc ==
    \/ ImportLogger(<<RuntimeFrame>>)
    \/ \E route \in {"root", "health"} : Accept(route)
    \/ \E i \in 1..MaxTasks, tick \in BOOLEAN : Run(i, tick)

SpecConc == InitConc /\ [][NextConc]_vars

(***************************************************************************)
(* getCallerFile on every stack: a stack is captured by a logging call or *)
(* by the record of logger.ts:98, then walked.                             *)
(***************************************************************************)
InitCaller ==
    /\ LOG_LEVEL = Undefined
    /\ ENABLE_DEBUG = Undefined
    /\ pc = "study"
    /\ env = Undefined
    /\ shouldLogFileName = FALSE
    /\ logger = Undefined
    /\ stdout = <<>>
    /\ clock = 0
    /\ nops = 0
    /\ last = NoOp
    /\ trace = <<>>
    /\ origin = "none"
    /\ caller = Undefined
    /\ tasks = <<>>

\* stackTrace.get()
Capture(org, outer) ==
    /\ origin = "none"
    /\ origin' = org
    /\ trace' = IF org = "init" THEN InitStack(outer) ELSE CallStack(outer)
    /\ UNCHANGED <<LOG_LEVEL, ENABLE_DEBUG, pc, env, shouldLogFileName, logger,
                   stdout, clock, nops, last, caller, tasks>>

\* the loop over the frames and the return
Walk ==
    /\ origin # "none"
    /\ caller = Undefined
    /\ caller' = Some(getCallerFile(trace))
    /\ UNCHANGED <<LOG_LEVEL, ENABLE_DEBUG, pc, env, shouldLogFileName, logger,
                   stdout, clock, nops, last, trace, origin, tasks>>

NextCaller ==
    \/ \E org \in {"call", "init"}, outer \in OuterTraces : Capture(org, outer)
    \/ Walk

SpecCaller == InitCaller /\ [][NextCaller]_vars

(***************************************************************************)
(* The properties.  They speak of the configuration as the operator sets  *)
(* it (the two environment variables) and of what reaches the output.     *)
(***************************************************************************)
\* the severities, most severe first
SeverityOrder == <<"error", "warn", "info", "http", "verbose", "debug", "silly">>

Pos(s) == CHOOSE i \in 1..Len(SeverityOrder) : SeverityOrder[i] = s

\* s is at least as severe as m
AtLeastAsSevere(s, m) == Pos(s) <= Pos(m)

UpperCased ==
    [l \in LogLevels |->
        CASE l = "error"   -> "ERROR"
          [] l = "warn"    -> "WARN"
          [] l = "info"    -> "INFO"
          [] l = "http"    -> "HTTP"
          [] l = "verbose" -> "VERBOSE"
          [] l = "debug"   -> "DEBUG"
          [] l = "silly"   -> "SILLY"]

ValidNames == {Some(l) : l \in LogLevels}

Disabled == ENABLE_DEBUG = Some("false")

\* the lines the last operation added to the output
Emitted == SubSeq(stdout, last.start + 1, Len(stdout))

\* C1: with the logger enabled and LOG_LEVEL one of the seven names m, a
\* call to the operation s adds exactly one line, which is that record's,
\* when s is at least as severe as m, and no line when s is less severe.
C1_FilterBySeverity ==
    (pc = "ready" /\ last.op = "log" /\ ~Disabled /\ LOG_LEVEL \in ValidNames) =>
        LET s == last.calls[1].level
            m == LOG_LEVEL[1]
        IN  IF AtLeastAsSevere(s, m)
            THEN /\ Len(Emitted) = 1
                 /\ Emitted[1].level = UpperCased[s]
                 /\ Emitted[1].message = last.calls[1].message
            ELSE Len(Emitted) = 0

C1_Witness ==
    /\ pc = "ready" /\ last.op = "log" /\ ~Disabled
    /\ LOG_LEVEL = Some("http")
    /\ last.calls[1].level = "http"
    /\ Len(Emitted) = 1
    /\ nops = 2

\* C2: with ENABLE_DEBUG = "false" every transport is silent once the module
\* is initialised, and the output stays empty whatever is called, under
\* every LOG_LEVEL.
C2_KillSwitch ==
    (pc = "ready" /\ Disabled) =>
        /\ \A i \in DOMAIN logger.transports : logger.transports[i].silent
        /\ stdout = <<>>

C2_Witness ==
    /\ pc = "ready" /\ Disabled
    /\ LOG_LEVEL = Some("silly")
    /\ nops = 2
    /\ last.op = "health"
    /\ stdout = <<>>

\* C3: when LOG_LEVEL is absent, empty or not one of the seven names, the
\* minimum severity in effect is silly: with the logger enabled, a call at
\* any of the seven severities adds a line.
C3_InvalidLevelMeansSilly ==
    (pc = "ready" /\ ~Disabled /\ LOG_LEVEL \notin ValidNames) =>
        /\ logger.level = "silly"
        /\ last.op = "log" => Len(Emitted) = 1

\* C4: the enabled flag is false only when ENABLE_DEBUG is exactly "false";
\* for every other value it is true and no transport is silent.
C4_EnabledUnlessLiteralFalse ==
    pc = "ready" =>
        /\ env.debugging.enableDebug = (ENABLE_DEBUG # Some("false"))
        /\ ENABLE_DEBUG # Some("false") =>
               \A i \in DOMAIN logger.transports : ~logger.transports[i].silent

C4_Witness ==
    /\ pc = "ready"
    /\ ENABLE_DEBUG = Some("FALSE")
    /\ env.debugging.enableDebug
    /\ \A i \in DOMAIN logger.transports : ~logger.transports[i].silent

\* C5: for each of the seven names given as LOG_LEVEL the level of the
\* logger is that name, when LOG_LEVEL is unset it is silly, and the "info"
\* default of createLogger is never what sets the level.
C5_LoggerLevel ==
    pc = "ready" =>
        /\ LOG_LEVEL \in ValidNames => logger.level = LOG_LEVEL[1]
        /\ LOG_LEVEL = Undefined => logger.level = "silly"
        /\ ~logger.usedDefault

C5_Witness ==
    /\ pc = "ready"
    /\ LOG_LEVEL = Undefined
    /\ logger.level = "silly"

\* a frame that has a source file which is neither the logger's own code
\* nor library code
ForeignFrame(frame) ==
    /\ frame.present
    /\ TruthyName(frame.fileName)
    /\ frame.owner \notin {"logger", "library"}

HasForeignFrame(tr) == \E i \in 1..Len(tr) : ForeignFrame(tr[i])

FirstForeignFrame(tr) ==
    tr[CHOOSE i \in 1..Len(tr) :
           ForeignFrame(tr[i]) /\ \A j \in 1..(i - 1) : ~ForeignFrame(tr[j])]

\* C6: for every call stack, the location is the path, relative to the
\* working directory, of the first frame whose source file is neither the
\* logger's own code nor library code.
C6_FirstForeignFrame ==
    (caller # Undefined /\ HasForeignFrame(trace)) =>
        caller[1] = PathRelative(Cwd, FirstForeignFrame(trace).fileName[1])

\* C7 as stated: a stack with no qualifying frame gives exactly the fallback
\* string, and so does the stack of the record written at initialisation.
C7_FallbackAlsoAtInit ==
    caller # Undefined =>
        /\ ~HasForeignFrame(trace) => caller[1] = UnknownFilePath
        /\ origin = "init" => caller[1] = UnknownFilePath

\* C7, amended: a stack with no qualifying frame gives exactly the fallback
\* string; the record written at initialisation gets it only when the stack
\* the module is imported under has no frame with a file name outside
\* node_modules and util/logger, and gets the path of the first such frame
\* (the loader of the runtime, the importing file) otherwise.
C7_FallbackWhenNothingQualifies ==
    caller # Undefined =>
        /\ ~HasForeignFrame(trace) => caller[1] = UnknownFilePath
        /\ (origin = "init" /\ \E i \in 1..Len(trace) :
                /\ trace[i].present
                /\ TruthyName(trace[i].fileName)
                /\ ~StrIncludes(trace[i].fileName[1], <<"node_modules">>)
                /\ ~StrIncludes(trace[i].fileName[1], <<"util", "/", "logger">>))
           => caller[1] # UnknownFilePath

C7_Witness ==
    /\ caller = Some(UnknownFilePath)
    /\ origin = "call"
    /\ Len(trace) = 4
    /\ trace[3] = NoFrame
    /\ trace[4] = NativeFrame

\* the relative paths of the files of the frame catalogue
KnownRelativePaths ==
    {PathRelative(Cwd, f.fileName[1]) : f \in {g \in Frames : TruthyName(g.fileName)}}

C9_InitRecordFiltered ==
    (pc = "ready" /\ last.op = "init") =>
        /\ last.calls = <<[level |-> "info", message |-> "Logger initialized successfully"]>>
        /\ (~Disabled /\ LOG_LEVEL \in ValidNames /\ AtLeastAsSevere("info", LOG_LEVEL[1])) =>
               /\ Len(stdout) = 1
               /\ stdout[1].level = "INFO"
               /\ stdout[1].message = "Logger initialized successfully"
        /\ (Disabled \/ LOG_LEVEL \in {Some("error"), Some("warn")}) => stdout = <<>>

C9_Witness ==
    /\ pc = "ready" /\ last.op = "init"
    /\ LOG_LEVEL = Some("info")
    /\ ENABLE_DEBUG = Undefined
    /\ Len(stdout) = 1

\* the names of SeverityOrder that pass the threshold m, in that order
Passing(m) == SelectSeq(SeverityOrder, LAMBDA s : AtLeastAsSevere(s, m))

\* C10: one GET /health request calls the seven operations once each, in
\* the order error, warn, info, http, verbose, debug, silly; with the
\* logger enabled it adds exactly the lines of the levels that pass the
\* threshold, in that order, each with its upper-cased level name: all
\* seven when the threshold is silly.
C10_HealthLines ==
    (pc = "ready" /\ last.op = "health" /\ ~Disabled /\ LOG_LEVEL \in ValidNames) =>
        /\ [i \in 1..Len(last.calls) |-> last.calls[i].level] = SeverityOrder
        /\ [i \in 1..Len(Emitted) |-> Emitted[i].level]
               = [i \in 1..Len(Passing(LOG_LEVEL[1])) |-> UpperCased[Passing(LOG_LEVEL[1])[i]]]
        /\ LOG_LEVEL = Some("silly") => Len(Emitted) = 7

C10_Witness ==
    /\ pc = "ready" /\ last.op = "health" /\ ~Disabled
    /\ LOG_LEVEL = Some("silly")
    /\ Len(Emitted) = 7
    /\ Emitted[1].level = "ERROR"
    /\ Emitted[7].level = "SILLY"

\* C11: under every configuration, every call of a finite sequence of calls
\* to the seven operations, made right after the import, returns normally,
\* whether it emits a line or not; the import itself does not raise either.
C11_CallsNeverRaise ==
    /\ pc # "failed"
    /\ ~last.raised
    /\ (pc = "ready" /\ last.op = "log") =>
           Len(Emitted) = (IF ~Disabled /\ logger.level \in LogLevels
                              /\ AtLeastAsSevere(last.calls[1].level, logger.level)
                           THEN 1 ELSE 0)

C11_Witness ==
    /\ pc = "ready" /\ last.op = "log" /\ ~last.raised
    /\ nops = 2
    /\ LOG_LEVEL = Some("bogus")
    /\ last.outer = <<NoFrame, LibraryFrame>>

\* C12: the replies do not depend on the logger: under every LOG_LEVEL and
\* ENABLE_DEBUG, GET / replies { root: true } and GET /health replies with
\* status "ok", whether the records of the handler are emitted or not.
C12_RepliesIgnoreLogger ==
    /\ (pc = "ready" /\ last.op = "root") => last.response = Some([root |-> TRUE])
    /\ (pc = "ready" /\ last.op = "health") =>
           /\ last.response # Undefined
           /\ DOMAIN last.response[1] = {"status", "timestamp"}
           /\ last.response[1].status = "ok"

C12_Witness ==
    /\ pc = "ready" /\ last.op = "health"
    /\ Disabled
    /\ last.response # Undefined
    /\ last.response[1].status = "ok"
    /\ stdout = <<>>

\* C14: the threshold, the enabled flag and the attribution decision are
\* fixed when the module is initialised: in every state reached after it,
\* whatever was called and whatever request was handled, they are what the
\* initialisation made them from the environment.
C14_ConfigurationFixed ==
    pc = "ready" =>
        LET m == ModuleInit(LOG_LEVEL, ENABLE_DEBUG, <<>>, 0)
        IN  /\ env = m.env
            /\ logger = m.logger
            /\ shouldLogFileName = m.shouldLogFileName

C14_Witness ==
    /\ pc = "ready"
    /\ nops = 2
    /\ last.op = "health"
    /\ LOG_LEVEL = Some("warn")
    /\ logger.level = "warn"
    /\ Len(stdout) = 3

\* two lines that differ at most in the timestamp, the second not earlier
SameButTime(a, b) ==
    /\ a.level = b.level
    /\ a.color = b.color
    /\ a.location = b.location
    /\ a.message = b.message
    /\ a.timestamp <= b.timestamp

\* C15: the same operation called twice in a row with the same message from
\* the same call site: the second call emits a line exactly when the first
\* did, and the two lines are identical in level, location and message and
\* differ at most in the timestamp.
C15_SameCallSameLine ==
    [][(/\ pc = "ready"
        /\ last.op = "log"
        /\ last'.op = "log"
        /\ nops' = nops + 1
        /\ last'.calls = last.calls
        /\ last'.outer = last.outer)
       => /\ Len(Emitted') = Len(Emitted)
          /\ Len(Emitted) = 1 => SameButTime(Emitted[1], Emitted'[1])]_vars

C15_Witness ==
    /\ pc = "ready" /\ last.op = "log"
    /\ nops = 2
    /\ Len(stdout) = 3
    /\ stdout[2].message = "x" /\ stdout[3].message = "x"
    /\ stdout[2].level = "DEBUG" /\ stdout[3].level = "DEBUG"
    /\ stdout[2].location = stdout[3].location
    /\ stdout[2].timestamp < stdout[3].timestamp

\* a frame the walk passes over
Skipped(frame) ==
    \/ ~frame.present
    \/ frame.fileName = Undefined
    \/ frame.fileName[1] = <<>>
    \/ StrIncludes(frame.fileName[1], <<"node_modules">>)
    \/ StrIncludes(frame.fileName[1], <<"util", "/", "logger">>)

\* C16: getCallerFile returns the relative path of the innermost frame that
\* is not skipped, a frame being skipped exactly when it is missing, has no
\* file name, or has a file name containing "node_modules" or "util/logger"
\* anywhere; so an application file with such a path is never reported,
\* and a frame of the runtime is reported when it comes first.
C16_InnermostUnskippedFrame ==
    caller # Undefined =>
        LET kept == {i \in 1..Len(trace) : ~Skipped(trace[i])}
        IN  /\ caller[1] = IF kept = {} THEN UnknownFilePath
                           ELSE PathRelative(Cwd,
                                    trace[CHOOSE i \in kept : \A j \in kept : i <= j].fileName[1])
            /\ caller[1] \notin {PathRelative(Cwd, HelperFile), PathRelative(Cwd, VendoredFile)}
            /\ (Len(trace) >= 3 /\ origin = "call" /\ trace[3] = RuntimeFrame)
                   => caller[1] = PathRelative(Cwd, RuntimeFile)

C16_Witness ==
    /\ caller = Some(PathRelative(Cwd, RuntimeFile))
    /\ origin = "call"
    /\ Len(trace) = 4
    /\ trace[3] = VendoredFrame
    /\ trace[4] = RuntimeFrame

\* a call whose record passes the threshold of an enabled logger
Passes(call) ==
    /\ ~Disabled
    /\ logger.level \in LogLevels
    /\ AtLeastAsSevere(call.level, logger.level)

\* the records request i has emitted so far, in the order of its calls
EmittedBy(i) ==
    SelectSeq(SubSeq(Calls(tasks[i].route), 1, tasks[i].next - 1), Passes)

\* the lines of the output written by the initialisation
InitLines == IF Passes(InitRecord) THEN 1 ELSE 0

\* C13: with several requests in flight, in every interleaving of their
\* handlers, every write to the output is one whole record ending its own
\* line, so no line holds parts of two records; every line after the
\* initialisation's is the line of exactly one request, and the lines of a
\* request are its passing records, each once, in the order of its calls.
C13_WholeLines ==
    pc = "ready" =>
        /\ \A j \in 1..Len(stdout) : stdout[j].eol
        /\ \A j \in 1..Len(stdout) :
               Cardinality({<<i, n>> \in (1..Len(tasks)) \X (1..Len(stdout)) :
                               n <= Len(tasks[i].wrote) /\ tasks[i].wrote[n] = j})
                   = IF j <= InitLines THEN 0 ELSE 1
        /\ \A i \in 1..Len(tasks) :
               LET w == tasks[i].wrote
                   e == EmittedBy(i)
               IN  /\ Len(w) = Len(e)
                   /\ \A n \in 1..Len(w) :
                          /\ w[n] \in 1..Len(stdout)
                          /\ n > 1 => w[n - 1] < w[n]
                          /\ stdout[w[n]].level = UpperCased[e[n].level]
                          /\ stdout[w[n]].message = e[n].message

C13_Witness ==
    /\ pc = "ready"
    /\ LOG_LEVEL = Some("http") /\ ENABLE_DEBUG = Undefined
    /\ Len(tasks) = 2
    /\ tasks[1].route = "health" /\ tasks[2].route = "root"
    /\ tasks[1].done /\ tasks[2].done
    /\ tasks[2].wrote = <<2>>
    /\ tasks[1].wrote = <<3, 4, 5, 6>>
    /\ stdout[2].message = "Hello world from root route"
    /\ stdout[6].message = "HTTP level test"
    /\ \A j \in 1..6 : stdout[j].eol

\* C17: a GET /health handler that has started has made all its seven
\* calls, and its lines are next to one another in the output, whatever
\* other requests are in flight.
C17_HealthLinesContiguous ==
    \A i \in 1..Len(tasks) :
        tasks[i].route = "health" =>
            /\ tasks[i].next \in {1, Len(HealthCalls) + 1}
            /\ tasks[i].next = Len(HealthCalls) + 1 => tasks[i].done
            /\ \A n \in 1..(Len(tasks[i].wrote) - 1) :
                   tasks[i].wrote[n + 1] = tasks[i].wrote[n] + 1

C17_Witness ==
    /\ pc = "ready"
    /\ LOG_LEVEL = Undefined /\ ENABLE_DEBUG = Undefined
    /\ Len(tasks) = 2
    /\ tasks[1].route = "health" /\ tasks[2].route = "health"
    /\ tasks[1].done /\ tasks[2].done
    /\ Len(stdout) = 15
    /\ tasks[2].wrote[1] = 2 /\ tasks[2].wrote[7] = 8
    /\ tasks[1].wrote[1] = 9 /\ tasks[1].wrote[7] = 15

====
